---- MODULE Spec2Model ----
(***************************************************************************)
(* Model of data_analysis.py: the monthly sales analysis script.  The      *)
(* script is one straight-line run over one pandas DataFrame: load (or     *)
(* bootstrap a sample), validate the columns, clean, compute the derived   *)
(* columns and aggregates, print the report, answer the extremum queries,  *)
(* show two charts, export, print the completion message.                  *)
(***************************************************************************)
EXTENDS Integers, Sequences, FiniteSets, TLC

VARIABLES pc, input_exists, inputFile, outputFile, df, missing_columns,
          total_revenue, average_revenue, total_profit, average_profit,
          highest_revenue_month, highest_revenue_value,
          above_average_revenue_months, console, charts, error

vars == <<pc, input_exists, inputFile, outputFile, df, missing_columns,
          total_revenue, average_revenue, total_profit, average_profit,
          highest_revenue_month, highest_revenue_value,
          above_average_revenue_months, console, charts, error>>

\* ------------------------------------------------------------------ bounds
\* Largest number of rows of an enumerated input table (besides the
\* twelve-row tables built from the sample).
MaxRows == 2

\* Numbers that may appear in a Revenue or Expenses cell of an enumerated
\* input table.
Values == {0, 100, 200}

\* ------------------------------------------------------------- cell values
\* A cell of the DataFrame (or a scalar computed from it) is a float, which
\* is a finite number (kept as the exact fraction n/d, d > 0, in lowest
\* terms), NaN, +inf or -inf (n carries the sign), or a text string.
Abs(x) == IF x < 0 THEN -x ELSE x

RECURSIVE GCD(_, _)
GCD(a, b) == IF b = 0 THEN a ELSE GCD(b, a % b)

Num(n, d) ==
    LET s == IF d < 0 THEN -1 ELSE 1
        g == GCD(Abs(n), Abs(d))
    IN [k |-> "num", n |-> (s * n) \div g, d |-> (s * d) \div g, s |-> ""]

Int2Cell(v) == [k |-> "num", n |-> v, d |-> 1, s |-> ""]
NaN         == [k |-> "nan", n |-> 0, d |-> 1, s |-> ""]
PosInf      == [k |-> "inf", n |-> 1, d |-> 1, s |-> ""]
NegInf      == [k |-> "inf", n |-> -1, d |-> 1, s |-> ""]
Str(t)      == [k |-> "str", n |-> 0, d |-> 1, s |-> t]

\* Marker of an absent file / a file that read_csv cannot parse / "no value
\* assigned yet" for the script's variables.
NoFile     == [kind |-> "absent"]
Unreadable == [kind |-> "unreadable"]
Unset      == [kind |-> "unset"]

\* ---------------------------------------------------------- float arithmetic
\* IEEE-754 subtraction as numpy performs it on float64/int64 columns.
Sub(a, b) ==
    CASE a.k = "num" /\ b.k = "num" -> Num(a.n * b.d - b.n * a.d, a.d * b.d)
      [] a.k = "nan" \/ b.k = "nan" -> NaN
      [] a.k = "inf" /\ b.k = "inf" -> IF a.n = b.n THEN NaN ELSE a
      [] a.k = "inf"                -> a
      [] OTHER                      -> IF b.n > 0 THEN NegInf ELSE PosInf

\* IEEE-754 division: x/0 is +-inf for x # 0 and NaN for x = 0.
Div(a, b) ==
    CASE a.k = "nan" \/ b.k = "nan" -> NaN
      [] a.k = "num" /\ b.k = "num" ->
            IF b.n # 0 THEN Num(a.n * b.d, a.d * b.n)
            ELSE IF a.n > 0 THEN PosInf
            ELSE IF a.n < 0 THEN NegInf
            ELSE NaN
      [] a.k = "inf" /\ b.k = "inf" -> NaN
      [] a.k = "inf"                -> IF b.n < 0 THEN
                                          (IF a.n > 0 THEN NegInf ELSE PosInf)
                                       ELSE a
      [] OTHER                      -> Int2Cell(0)

\* IEEE-754 multiplication by the positive integer constant c.
MulInt(a, c) == IF a.k = "num" THEN Num(a.n * c, a.d) ELSE a

\* a > b on floats; every comparison with NaN is False.
Greater(a, b) ==
    CASE a.k = "nan" \/ b.k = "nan" -> FALSE
      [] a.k = "num" /\ b.k = "num" -> a.n * b.d > b.n * a.d
      [] a.k = "inf" /\ b.k = "inf" -> a.n > b.n
      [] a.k = "inf"                -> a.n > 0
      [] OTHER                      -> b.n < 0

\* a >= b restricted to finite numbers (used to locate a maximum).
GeqNum(a, b) == a.n * b.d >= b.n * a.d

\* Python's fixed-point formatting '{x:.2f}' / '{x:,.0f}': the value rounded
\* half-to-even to `places` decimals; nan and inf print as themselves.
Pow10(places) == IF places = 0 THEN 1 ELSE 100

FormatFixed(x, places) ==
    IF x.k # "num" THEN x
    ELSE LET sc  == Pow10(places)
             q   == (x.n * sc) \div x.d
             r   == (x.n * sc) % x.d
             up  == IF 2 * r > x.d THEN 1
                    ELSE IF 2 * r = x.d THEN q % 2
                    ELSE 0
         IN Num(q + up, sc)

\* ------------------------------------------------------------------- tables
\* A table is [cols: sequence of column names, rows: sequence of rows], a
\* row being a function from the column names to cells.
required_columns == <<"Month", "Revenue", "Expenses">>

Range(s) == {s[i] : i \in DOMAIN s}

MonthNames == <<"January", "February", "March", "April", "May", "June",
                "July", "August", "September", "October", "November",
                "December">>

SampleRevenue == <<1500, 1800, 2400, 2000, 2300, 1900,
                   2100, 2200, 2500, 2700, 2600, 2800>>

SampleExpenses == <<500, 600, 800, 700, 900, 750,
                    850, 950, 1000, 1100, 1050, 1200>>

MkRow(m, r, e) ==
    [c \in Range(required_columns) |->
        IF c = "Month" THEN m ELSE IF c = "Revenue" THEN r ELSE e]

\* pd.DataFrame(data_sample)
data_sample ==
    [cols |-> required_columns,
     rows |-> [i \in 1..Len(MonthNames) |->
                 MkRow(Str(MonthNames[i]), Int2Cell(SampleRevenue[i]),
                       Int2Cell(SampleExpenses[i]))]]

\* The table with one more column, whose value in row i is val[i].
WithColumn(t, name, val) ==
    [cols |-> IF name \in Range(t.cols) THEN t.cols ELSE Append(t.cols, name),
     rows |-> [i \in 1..Len(t.rows) |->
                 [c \in DOMAIN t.rows[i] \cup {name} |->
                     IF c = name THEN val[i] ELSE t.rows[i][c]]]]

\* The table restricted to the columns of the sequence cs.
Project(t, cs) ==
    [cols |-> cs,
     rows |-> [i \in 1..Len(t.rows) |-> [c \in Range(cs) |-> t.rows[i][c]]]]

Column(t, name) == [i \in 1..Len(t.rows) |-> t.rows[i][name]]

\* ------------------------------------------------------------- CSV file I/O
\* In a CSV file a missing value is an empty field; read_csv turns an empty
\* field into NaN and to_csv writes NaN as an empty field.
EmptyField == Str("")

ReadCsvCell(v) == IF v = EmptyField THEN NaN ELSE v
WriteCsvCell(v) == IF v.k = "nan" THEN EmptyField ELSE v

read_csv(f) ==
    [cols |-> f.cols,
     rows |-> [i \in 1..Len(f.rows) |->
                 [c \in DOMAIN f.rows[i] |-> ReadCsvCell(f.rows[i][c])]]]

to_csv(t) ==
    [kind |-> "csv",
     cols |-> t.cols,
     rows |-> [i \in 1..Len(t.rows) |->
                 [c \in DOMAIN t.rows[i] |-> WriteCsvCell(t.rows[i][c])]]]

\* ------------------------------------------------------- enumerated inputs
\* What a Revenue or Expenses field of the input file may hold: a number, an
\* empty field, or text that is not a number.
RawCells == {Int2Cell(v) : v \in Values} \cup {EmptyField, Str("abc")}

SwapRows(t, i, j) ==
    [cols |-> t.cols,
     rows |-> [x \in 1..Len(t.rows) |->
                 IF x = i THEN t.rows[j] ELSE IF x = j THEN t.rows[i]
                 ELSE t.rows[x]]]

\* The twelve sample rows with rows i and j exchanged (i = j: calendar order).
TwelveRowFile(i, j) == to_csv(SwapRows(data_sample, i, j))

\* A table of n rows over the first n months, in calendar or reverse order,
\* with the given Revenue and Expenses fields.
SmallFile(n, rv, ex, fwd) ==
    to_csv([cols |-> required_columns,
            rows |-> [i \in 1..n |->
                        MkRow(Str(MonthNames[IF fwd THEN i ELSE n + 1 - i]),
                              rv[i], ex[i])]])

\* The sub-sequences of the required columns other than the whole.
PartialColumns ==
    { SelectSeq(required_columns, LAMBDA c : c \in S) :
        S \in (SUBSET Range(required_columns)) \ {Range(required_columns)} }

\* One row with an empty Revenue field and a non-numeric Expenses field.
DirtyRow ==
    [cols |-> required_columns,
     rows |-> <<MkRow(Str(MonthNames[1]), EmptyField, Str("abc"))>>]

\* A file that lacks at least one required column.
PartialFile(t, cs) == to_csv(Project(t, cs))

\* The input path at the start of a run.
InputChoice(f) ==
    \/ f \in {NoFile, Unreadable}
    \/ \E i \in 1..Len(MonthNames) : \E j \in i..Len(MonthNames) :
          f = TwelveRowFile(i, j)
    \/ \E n \in 0..MaxRows :
          \E rv \in [1..n -> RawCells], ex \in [1..n -> RawCells],
             fwd \in BOOLEAN :
             f = SmallFile(n, rv, ex, fwd)
    \/ \E t \in {data_sample, SwapRows(data_sample, 1, 2), DirtyRow} :
          \E cs \in PartialColumns : f = PartialFile(t, cs)

\* A result file left by an earlier run.
EarlierOutput == [kind |-> "csv", cols |-> <<"Month">>, rows |-> <<>>]

analysis_time == "2024-01-01 00:00:00"

\* ---------------------------------------------------------------- the run
Say(tag, val) == Append(console, [tag |-> tag, val |-> val])
Say2(c, tag, val) == Append(c, [tag |-> tag, val |-> val])

Init ==
    /\ pc = "load"
    /\ InputChoice(inputFile)
    /\ input_exists = (inputFile.kind # "absent")
    /\ outputFile \in {NoFile, EarlierOutput}
    /\ df = Unset
    /\ missing_columns = <<>>
    /\ total_revenue = Unset
    /\ average_revenue = Unset
    /\ total_profit = Unset
    /\ average_profit = Unset
    /\ highest_revenue_month = Unset
    /\ highest_revenue_value = Unset
    /\ above_average_revenue_months = <<>>
    /\ console = <<>>
    /\ charts = <<>>
    /\ error = "none"

\* Variant of CreateSample that builds the sample table in memory only.
CreateSample_unsaved ==
    /\ df' = data_sample
    /\ inputFile' = inputFile
    /\ console' = Say2(Say2(Say("Error finding", Str("sale_data.csv")),
                            "Creating file", Str("")),
                       "File Created", Str("sale_data.csv"))
    /\ pc' = "validate"
    /\ error' = error

\* Lines 25-42: the input path does not exist: build the sample table and
\* save it at the input path.  df.to_csv at line 41 is not guarded, so a
\* failed write ends the run with the exception.
CreateSample ==
    LET c1 == Say2(Say("Error finding", Str("sale_data.csv")),
                   "Creating file", Str(""))
    IN \/ /\ df' = data_sample
          /\ inputFile' = to_csv(data_sample)
          /\ console' = Say2(c1, "File Created", Str("sale_data.csv"))
          /\ pc' = "validate"
          /\ error' = error
       \/ /\ df' = data_sample
          /\ inputFile' = inputFile
          /\ console' = c1
          /\ pc' = "crashed"
          /\ error' = "OSError"

\* Lines 44-51: the input path exists: read it; a failure to read is
\* reported and exits.
ReadInput ==
    IF inputFile.kind = "unreadable"
    THEN /\ console' = Say("Error Reading", Str(""))
         /\ pc' = "exited"
         /\ UNCHANGED <<df, inputFile, error>>
    ELSE /\ df' = read_csv([cols |-> inputFile.cols, rows |-> inputFile.rows])
         /\ console' = Say("File Successfully Loaded", Str("sale_data.csv"))
         /\ pc' = "validate"
         /\ UNCHANGED <<inputFile, error>>

\* Lines 24-51: bootstrap the sample file when the input path does not
\* exist, otherwise read the file.
Load ==
    /\ pc = "load"
    /\ IF ~input_exists THEN CreateSample ELSE ReadInput
    /\ UNCHANGED <<input_exists, outputFile, missing_columns, total_revenue,
                   average_revenue, total_profit, average_profit,
                   highest_revenue_month, highest_revenue_value,
                   above_average_revenue_months, charts>>

\* Variant of MissingColumns that stops at the first absent column.
MissingColumns_first(cols) ==
    LET all == SelectSeq(required_columns, LAMBDA c : c \notin Range(cols))
    IN IF all = <<>> THEN all ELSE <<all[1]>>

\* Line 55: the required columns that the table does not have, in order.
MissingColumns(cols) ==
    SelectSeq(required_columns, LAMBDA c : c \notin Range(cols))

\* Lines 53-59: validation; any missing column is reported and exits.
Validate ==
    /\ pc = "validate"
    /\ missing_columns' = MissingColumns(df.cols)
    /\ IF missing_columns' # <<>>
       THEN /\ console' = Say("Error: Missing required columns", missing_columns')
            /\ pc' = "exited"
       ELSE /\ console' = console
            /\ pc' = "clean"
    /\ UNCHANGED <<input_exists, inputFile, outputFile, df, total_revenue,
                   average_revenue, total_profit, average_profit,
                   highest_revenue_month, highest_revenue_value,
                   above_average_revenue_months, charts, error>>

\* Line 63: df.isnull().values.any()
AnyNull(t) ==
    \E i \in 1..Len(t.rows) : \E c \in DOMAIN t.rows[i] : t.rows[i][c].k = "nan"

\* Line 65: df.fillna(0) on a cell and on the whole table
FillNaCell(v) == IF v.k = "nan" THEN Int2Cell(0) ELSE v

fillna(t) ==
    [cols |-> t.cols,
     rows |-> [i \in 1..Len(t.rows) |->
                 [c \in DOMAIN t.rows[i] |-> FillNaCell(t.rows[i][c])]]]

\* Lines 68-69: pd.to_numeric(..., errors='coerce') on a cell: text that is
\* not a number becomes NaN.
to_numeric(v) == IF v.k = "str" THEN NaN ELSE v

\* Lines 68-69: only the Revenue and Expenses columns are coerced.
Coerce(t) ==
    [cols |-> t.cols,
     rows |-> [i \in 1..Len(t.rows) |->
                 [c \in DOMAIN t.rows[i] |->
                     IF c \in {"Revenue", "Expenses"}
                     THEN to_numeric(t.rows[i][c]) ELSE t.rows[i][c]]]]

\* Lines 61-69: fill the missing values first, coerce afterwards.
CleanTable(t) == Coerce(IF AnyNull(t) THEN fillna(t) ELSE t)

Clean ==
    /\ pc = "clean"
    /\ df' = CleanTable(df)
    /\ console' = IF AnyNull(df) THEN Say("Warning: Missing values", Str(""))
                  ELSE console
    /\ pc' = "analyze"
    /\ UNCHANGED <<input_exists, inputFile, outputFile, missing_columns,
                   total_revenue, average_revenue, total_profit,
                   average_profit, highest_revenue_month,
                   highest_revenue_value, above_average_revenue_months,
                   charts, error>>

\* Variant of ProfitOf with the operands exchanged.
ProfitOf_swapped(rev, ex) == Sub(ex, rev)

\* Line 74: Profit = Revenue - Expenses
ProfitOf(rev, ex) == Sub(rev, ex)

\* Line 77: Profit_Margin_Percentage = (Profit / Revenue) * 100
MarginOf(profit, rev) == MulInt(Div(profit, rev), 100)

\* Series.sum(): the sum of the values that are not NaN (0 when none).
RECURSIVE SumTo(_, _)
SumTo(col, i) ==
    IF i = 0 THEN Int2Cell(0)
    ELSE IF col[i].k = "nan" THEN SumTo(col, i - 1)
    ELSE Sub(SumTo(col, i - 1), Sub(Int2Cell(0), col[i]))

SeriesSum(col) == SumTo(col, Len(col))

\* Series.count(): how many values are not NaN.
SeriesCount(col) == Cardinality({i \in DOMAIN col : col[i].k # "nan"})

\* Series.mean(): the mean of the values that are not NaN; NaN when there
\* is none.
SeriesMean(col) ==
    IF SeriesCount(col) = 0 THEN NaN
    ELSE Div(SeriesSum(col), Int2Cell(SeriesCount(col)))

\* Lines 74 and 77: the table with the two derived columns.
Derived(t) ==
    LET p  == [i \in 1..Len(t.rows) |->
                 ProfitOf(t.rows[i]["Revenue"], t.rows[i]["Expenses"])]
        t1 == WithColumn(t, "Profit", p)
        m  == [i \in 1..Len(t.rows) |-> MarginOf(p[i], t.rows[i]["Revenue"])]
    IN WithColumn(t1, "Profit_Margin_Percentage", m)

\* Lines 71-83: derived columns and aggregates.
Analyze ==
    /\ pc = "analyze"
    /\ df' = Derived(df)
    /\ total_revenue' = SeriesSum(Column(df', "Revenue"))
    /\ average_revenue' = SeriesMean(Column(df', "Revenue"))
    /\ total_profit' = SeriesSum(Column(df', "Profit"))
    /\ average_profit' = SeriesMean(Column(df', "Profit"))
    /\ pc' = "report"
    /\ UNCHANGED <<input_exists, inputFile, outputFile, missing_columns,
                   highest_revenue_month, highest_revenue_value,
                   above_average_revenue_months, console, charts, error>>

report_columns ==
    <<"Month", "Revenue", "Expenses", "Profit", "Profit_Margin_Percentage">>

\* Lines 85-94: the printed report.
Report ==
    /\ pc = "report"
    /\ console' =
         Say2(Say2(Say2(Say2(Say2(Say2(Say2(console,
           "Analysis Time", Str(analysis_time)),
           "Number of Months Analyzed", Int2Cell(Len(df.rows))),
           "Total Revenue", FormatFixed(total_revenue, 2)),
           "Average Monthly Revenue", FormatFixed(average_revenue, 2)),
           "Total Profit", FormatFixed(total_profit, 2)),
           "Average Monthly Profit", FormatFixed(average_profit, 2)),
           "Monthly Breakdown", Project(df, report_columns))
    /\ pc' = "best_month"
    /\ UNCHANGED <<input_exists, inputFile, outputFile, df, missing_columns,
                   total_revenue, average_revenue, total_profit,
                   average_profit, highest_revenue_month,
                   highest_revenue_value, above_average_revenue_months,
                   charts, error>>

\* Variant of idxmax that takes the last row holding the largest value.
idxmax_last(col) ==
    LET ok == {i \in DOMAIN col : col[i].k # "nan"}
        top == {i \in ok : \A j \in ok : GeqNum(col[i], col[j])}
    IN IF top = {} THEN 0
       ELSE CHOOSE i \in top : \A j \in top : i >= j

\* Series.idxmax(): the label of the first row holding the largest value
\* that is not NaN (labels are the row positions; 0 when there is no such
\* row, where pandas raises).
idxmax(col) ==
    LET ok == {i \in DOMAIN col : col[i].k # "nan"}
        top == {i \in ok : \A j \in ok : GeqNum(col[i], col[j])}
    IN IF top = {} THEN 0
       ELSE CHOOSE i \in top : \A j \in top : i <= j

\* Series.max(): the largest value that is not NaN.
SeriesMax(col) == col[idxmax(col)]

\* Lines 96-99: the best month.  idxmax of an empty column raises
\* ValueError; on a column of NaN only it raises ValueError, or returns NaN
\* and df.loc raises KeyError, depending on the pandas version.  Nothing
\* catches either.
BestMonth ==
    /\ pc = "best_month"
    /\ LET i == idxmax(Column(df, "Revenue"))
       IN IF i = 0
          THEN /\ pc' = "crashed"
               /\ error' \in IF Len(df.rows) = 0 THEN {"ValueError"}
                              ELSE {"ValueError", "KeyError"}
               /\ UNCHANGED <<highest_revenue_month, highest_revenue_value,
                              console>>
          ELSE /\ highest_revenue_month' = df.rows[i]["Month"]
               /\ highest_revenue_value' = SeriesMax(Column(df, "Revenue"))
               /\ console' = Say("The Best Performing Month",
                                 <<highest_revenue_month',
                                   FormatFixed(highest_revenue_value', 2)>>)
               /\ pc' = "above_average"
               /\ error' = error
    /\ UNCHANGED <<input_exists, inputFile, outputFile, df, missing_columns,
                   total_revenue, average_revenue, total_profit,
                   average_profit, above_average_revenue_months, charts>>

\* Line 102: the months whose revenue is strictly above the average.
AboveAverageMonths(t, avg) ==
    LET keep == SelectSeq(t.rows, LAMBDA r : Greater(r["Revenue"], avg))
    IN [i \in 1..Len(keep) |-> keep[i]["Month"]]

\* Lines 101-103
AboveAverage ==
    /\ pc = "above_average"
    /\ above_average_revenue_months' = AboveAverageMonths(df, average_revenue)
    /\ console' = Say("The Months with Above Average Revenue",
                      above_average_revenue_months')
    /\ pc' = "revenue_chart"
    /\ UNCHANGED <<input_exists, inputFile, outputFile, df, missing_columns,
                   total_revenue, average_revenue, total_profit,
                   average_profit, highest_revenue_month,
                   highest_revenue_value, charts, error>>

\* A bar chart: the categories along x (visualization_df['Month']), the bar
\* heights, and the text label drawn on each bar.
BarChart(title, t, name, places) ==
    [title  |-> title,
     x      |-> Column(t, "Month"),
     height |-> Column(t, name),
     label  |-> [i \in 1..Len(t.rows) |-> FormatFixed(t.rows[i][name], places)]]

\* Lines 105-128: the revenue chart, drawn from a copy of df.
RevenueChart ==
    /\ pc = "revenue_chart"
    /\ charts' = Append(charts,
                   BarChart("Monthly Revenue Analysis", df, "Revenue", 0))
    /\ pc' = "margin_chart"
    /\ UNCHANGED <<input_exists, inputFile, outputFile, df, missing_columns,
                   total_revenue, average_revenue, total_profit,
                   average_profit, highest_revenue_month,
                   highest_revenue_value, above_average_revenue_months,
                   console, error>>

\* Lines 130-150: the profit margin chart.
MarginChart ==
    /\ pc = "margin_chart"
    /\ charts' = Append(charts,
                   BarChart("Monthly Profit Margin Percentage", df,
                            "Profit_Margin_Percentage", 2))
    /\ pc' = "export"
    /\ UNCHANGED <<input_exists, inputFile, outputFile, df, missing_columns,
                   total_revenue, average_revenue, total_profit,
                   average_profit, highest_revenue_month,
                   highest_revenue_value, above_average_revenue_months,
                   console, error>>

\* Lines 153-154: the exported table.
analysis_results(t) ==
    WithColumn(t, "Analysis_Time",
               [i \in 1..Len(t.rows) |-> Str(analysis_time)])

\* What a failed write leaves at the output path.
PartialOutput == [kind |-> "partial"]

\* Variant of Export without the try/except: a failed write ends the run.
Export_uncaught ==
    /\ pc = "export"
    /\ \/ /\ outputFile' = to_csv(analysis_results(df))
          /\ console' = Say("Analysis results exported successfully",
                            Str("sale_analysis_result.csv"))
          /\ pc' = "finish"
          /\ error' = error
       \/ /\ outputFile' \in {outputFile, PartialOutput}
          /\ console' = console
          /\ pc' = "crashed"
          /\ error' = "OSError"
    /\ UNCHANGED <<input_exists, inputFile, df, missing_columns,
                   total_revenue, average_revenue, total_profit,
                   average_profit, highest_revenue_month,
                   highest_revenue_value, above_average_revenue_months,
                   charts>>

\* Lines 152-159: export; a failed write is caught and reported.  The failed
\* write leaves the file as it was or partly written.
Export ==
    /\ pc = "export"
    /\ \/ /\ outputFile' = to_csv(analysis_results(df))
          /\ console' = Say("Analysis results exported successfully",
                            Str("sale_analysis_result.csv"))
       \/ /\ outputFile' \in {outputFile, PartialOutput}
          /\ console' = Say("Error exporting analysis results", Str("OSError"))
    /\ pc' = "finish"
    /\ UNCHANGED <<input_exists, inputFile, df, missing_columns,
                   total_revenue, average_revenue, total_profit,
                   average_profit, highest_revenue_month,
                   highest_revenue_value, above_average_revenue_months,
                   charts, error>>

\* Lines 161-164: the completion messages.
Finish ==
    /\ pc = "finish"
    /\ console' = Say2(Say2(Say("Analysis Completed", Str("")),
                     "The analysis has been performed", Str("")),
                     "Check the output file", Str(""))
    /\ pc' = "done"
    /\ UNCHANGED <<input_exists, inputFile, outputFile, df, missing_columns,
                   total_revenue, average_revenue, total_profit,
                   average_profit, highest_revenue_month,
                   highest_revenue_value, above_average_revenue_months,
                   charts, error>>

Next ==
    \/ Load
    \/ Validate
    \/ Clean
    \/ Analyze
    \/ Report
    \/ BestMonth
    \/ AboveAverage
    \/ RevenueChart
    \/ MarginChart
    \/ Export
    \/ Finish

Spec == Init /\ [][Next]_vars

TypeOK ==
    /\ pc \in {"load", "validate", "clean", "analyze", "report", "best_month",
               "above_average", "revenue_chart", "margin_chart", "export",
               "finish", "done", "exited", "crashed"}
    /\ input_exists \in BOOLEAN
    /\ error \in {"none", "OSError", "ValueError", "KeyError"}
    /\ Len(charts) <= 2

\* ------------------------------------------------------------ properties
IsTable(x) == "cols" \in DOMAIN x

HasColumn(t, name) == IsTable(t) /\ name \in Range(t.cols)

Valid(t) == IsTable(t) /\ MissingColumns(t.cols) = <<>>

Said(tag) == \E i \in DOMAIN console : console[i].tag = tag

SaidWith(tag, val) ==
    \E i \in DOMAIN console : console[i].tag = tag /\ console[i].val = val

AfterClean ==
    pc \in {"analyze", "report", "best_month", "above_average",
            "revenue_chart", "margin_chart", "export", "finish", "done"}
    \/ (pc = "crashed" /\ error \in {"ValueError", "KeyError"})

AfterBestMonth ==
    pc \in {"above_average", "revenue_chart", "margin_chart", "export",
            "finish", "done"}

\* C1: once the Profit column exists, in every row whose Revenue and
\* Expenses are numbers the Profit is the number Revenue - Expenses.
C1_ProfitIsRevenueMinusExpenses ==
    HasColumn(df, "Profit") =>
        \A i \in 1..Len(df.rows) :
            LET r == df.rows[i]
            IN (r["Revenue"].k = "num" /\ r["Expenses"].k = "num") =>
                  /\ r["Profit"].k = "num"
                  /\ r["Profit"].n * r["Revenue"].d * r["Expenses"].d =
                        r["Profit"].d * (r["Revenue"].n * r["Expenses"].d
                                         - r["Expenses"].n * r["Revenue"].d)

C1_Witness ==
    /\ pc = "done"
    /\ \E i \in 1..Len(df.rows) :
          /\ df.rows[i]["Revenue"] = Int2Cell(100)
          /\ df.rows[i]["Expenses"] = Int2Cell(200)
          /\ df.rows[i]["Profit"] = Int2Cell(-100)

\* C2: once the margin column exists, a row with Revenue = 0 has the margin
\* NaN (not 0, not an infinity), and a row with a nonzero Revenue has the
\* margin Profit / Revenue * 100.
C2_ZeroRevenueMarginUndefined ==
    HasColumn(df, "Profit_Margin_Percentage") =>
        \A i \in 1..Len(df.rows) :
            LET r == df.rows[i]
                m == r["Profit_Margin_Percentage"]
            IN (r["Revenue"].k = "num" /\ r["Expenses"].k = "num") =>
                  IF r["Revenue"].n = 0
                  THEN m.k = "nan"
                  ELSE /\ m.k = "num"
                       /\ m.n * r["Revenue"].n * r["Profit"].d =
                             100 * r["Profit"].n * r["Revenue"].d * m.d

\* C3: after cleaning every Revenue and Expenses cell is a number, a cell
\* that was empty or not numeric in the input is 0, and no row is dropped.
C3_CleanedCellsAreNumbers ==
    (AfterClean /\ inputFile.kind = "csv") =>
        /\ Len(df.rows) = Len(inputFile.rows)
        /\ \A i \in 1..Len(df.rows) : \A c \in {"Revenue", "Expenses"} :
              /\ df.rows[i][c].k = "num"
              /\ (inputFile.rows[i][c].k = "str" => df.rows[i][c] = Int2Cell(0))

\* C4: when the loaded table lacks a required column, the run reports
\* exactly the required columns that are absent and stops there: nothing is
\* cleaned, no metric is computed, no chart is shown, no step follows, and
\* the output file is never written.
C4_MissingColumnHalts ==
    /\ [](  (IsTable(df) /\ ~Valid(df) /\ pc # "validate") =>
              /\ pc = "exited"
              /\ console[Len(console)].tag = "Error: Missing required columns"
              /\ Range(console[Len(console)].val) =
                    Range(required_columns) \ Range(df.cols)
              /\ df = read_csv([cols |-> inputFile.cols,
                                rows |-> inputFile.rows])
              /\ ~HasColumn(df, "Profit")
              /\ total_revenue = Unset /\ average_revenue = Unset
              /\ total_profit = Unset /\ average_profit = Unset
              /\ charts = <<>>
              /\ ~Said("Analysis results exported successfully")
              /\ ~Said("Analysis Completed") )
    /\ [][ (IsTable(df') /\ ~Valid(df')) => outputFile' = outputFile ]_vars
    /\ [][ pc # "exited" ]_vars

C4_Witness ==
    /\ pc = "exited"
    /\ IsTable(df)
    /\ Len(df.rows) = 1
    /\ df.cols = <<"Month">>
    /\ missing_columns = <<"Revenue", "Expenses">>
    /\ outputFile = EarlierOutput

\* The input file holds the twelve months, one row each, in some order.
TwelveMonths(f) ==
    /\ f.kind = "csv"
    /\ "Month" \in Range(f.cols)
    /\ Len(f.rows) = Len(MonthNames)
    /\ \A m \in 1..Len(MonthNames) :
          \E i \in 1..Len(f.rows) : f.rows[i]["Month"] = Str(MonthNames[m])

CalendarOrder == [i \in 1..Len(MonthNames) |-> Str(MonthNames[i])]

\* C5: for an input of the twelve month rows in any order, the table that
\* is reported, charted and exported lists the months January..December.
C5_MonthsInCalendarOrder ==
    (TwelveMonths(inputFile) /\ Valid(df)) =>
        /\ \A i \in DOMAIN console :
              console[i].tag = "Monthly Breakdown" =>
                 Column(console[i].val, "Month") = CalendarOrder
        /\ \A i \in DOMAIN charts : charts[i].x = CalendarOrder
        /\ Said("Analysis results exported successfully") =>
              Column(outputFile, "Month") = CalendarOrder

\* C6: the exported table has a Profit_MoM_Change column, undefined (an
\* empty field) in the first row and (Profit[i] - Profit[i-1]) / Profit[i-1]
\* * 100 in every later row.
C6_ExportHasMoMChange ==
    Said("Analysis results exported successfully") =>
        /\ "Profit_MoM_Change" \in Range(outputFile.cols)
        /\ \A i \in 1..Len(outputFile.rows) :
              LET r == outputFile.rows[i]
              IN IF i = 1 THEN r["Profit_MoM_Change"] = EmptyField
                 ELSE LET q == outputFile.rows[i - 1]["Profit"]
                      IN (r["Profit"].k = "num" /\ q.k = "num" /\ q.n # 0) =>
                            r["Profit_MoM_Change"] =
                               MulInt(Div(Sub(r["Profit"], q), q), 100)

\* C7: with zero rows the run does not end in an exception, and the report
\* gives both averages as NaN.
C7_EmptyTableCompletes ==
    (Valid(df) /\ Len(df.rows) = 0) =>
        /\ pc # "crashed"
        /\ Said("Average Monthly Revenue") =>
              /\ SaidWith("Average Monthly Revenue", NaN)
              /\ SaidWith("Average Monthly Profit", NaN)

ExportFailed == Said("Error exporting analysis results")

\* C8: a failed export is reported and nothing else changes: the step that
\* reports it leaves the table, the aggregates, the charts and the lines
\* already printed as they were and goes on to the completion step, which
\* prints the completion messages and ends the run normally.
C8_ExportFailureNotFatal ==
    /\ [][ (pc = "export" /\ ~Said("Analysis results exported successfully")') =>
              /\ ExportFailed'
              /\ pc' = "finish"
              /\ Len(charts) = 2
              /\ Said("Monthly Breakdown")
              /\ SubSeq(console', 1, Len(console)) = console
              /\ UNCHANGED <<df, charts, total_revenue, average_revenue,
                             total_profit, average_profit,
                             highest_revenue_month, highest_revenue_value,
                             above_average_revenue_months>> ]_vars
    /\ [][ pc = "finish" =>
              /\ pc' = "done"
              /\ console'[Len(console')].tag = "Check the output file"
              /\ SubSeq(console', 1, Len(console)) = console
              /\ UNCHANGED <<df, charts, error>> ]_vars
    /\ [](pc = "finish" => ENABLED Finish)
    /\ []((ExportFailed /\ pc = "done") =>
              /\ error = "none"
              /\ Said("Analysis Completed")
              /\ Len(charts) = 2
              /\ HasColumn(df, "Profit_Margin_Percentage"))

C8_Witness ==
    /\ pc = "done"
    /\ ExportFailed
    /\ Said("Analysis Completed")
    /\ outputFile = PartialOutput

C10_BestMonthFirstMaximum ==
    (Valid(df) /\ Len(df.rows) > 0 /\ AfterClean
       /\ \A i \in 1..Len(df.rows) : df.rows[i]["Revenue"].k = "num") =>
        /\ pc # "crashed"
        /\ AfterBestMonth =>
              /\ \E i \in 1..Len(df.rows) :
                    /\ highest_revenue_month = df.rows[i]["Month"]
                    /\ \A j \in 1..Len(df.rows) :
                          df.rows[j]["Revenue"].n <= df.rows[i]["Revenue"].n
                    /\ \A j \in 1..(i - 1) :
                          df.rows[j]["Revenue"].n < df.rows[i]["Revenue"].n
              /\ \E i \in DOMAIN console :
                    /\ console[i].tag = "The Best Performing Month"
                    /\ console[i].val[1] = highest_revenue_month

C10_Witness ==
    /\ pc = "done"
    /\ Len(df.rows) = 2
    /\ df.rows[1]["Revenue"] = Int2Cell(200)
    /\ df.rows[2]["Revenue"] = Int2Cell(200)
    /\ df.rows[1]["Month"] = Str("February")
    /\ highest_revenue_month = Str("February")

====
